---- MODULE Spec2Model ----
(***************************************************************************)
(* casr-san: crash classification and report synthesis.                    *)
(*                                                                         *)
(* The module models src/src/execution_class.rs (the taxonomy table CLASSES *)
(* and the lookups ExecutionClass::find / ExecutionClass::san_find) and    *)
(* the report pipeline of src/src/bin/casr-san.rs (main, from the captured *)
(* stderr of the target to the serialized report).                         *)
(*                                                                         *)
(* Strings are TLA+ strings, read character by character with Len, SubSeq  *)
(* and \o, so substring search, the regular expressions, trim and split    *)
(* are computed on the text itself.                                         *)
(***************************************************************************)
EXTENDS Integers, Sequences, FiniteSets, TLC

(***************************************************************************)
(* Option and Result values of the Rust code.                              *)
(***************************************************************************)
None == <<>>

Some(x) == <<x>>

unwrap_or(opt, dflt) == IF opt = None THEN dflt ELSE opt[1]

Ok(v) == [ok |-> TRUE, val |-> v]

Err(msg) == [ok |-> FALSE, err |-> msg]

SetMin(S) == CHOOSE m \in S : \A x \in S : m <= x

SetMax(S) == CHOOSE m \in S : \A x \in S : m >= x

(***************************************************************************)
(* The taxonomy table, execution_class.rs:22-94, as tuples                 *)
(* <<severity, short description, description, explanation>>.  The en dash *)
(* in the explanation of TrapSignal is written "-" (the module is ASCII).  *)
(***************************************************************************)
CLASSES == <<
    <<"EXPLOITABLE", "SegFaultOnPc", "Segmentation fault on program counter",
      "The target tried to access data at an address that matches the program counter. This likely indicates that the program counter contents are tainted and can be controlled by an attacker.">>,
    <<"EXPLOITABLE", "ReturnAv", "Access violation during return instruction",
      "The target crashed on a return instruction, which likely indicates stack corruption.">>,
    <<"EXPLOITABLE", "BranchAv", "Access violation during branch instruction",
      "The target crashed on a branch instruction, which may indicate that the control flow is tainted.">>,
    <<"EXPLOITABLE", "CallAv", "Access violation during call instruction",
      "The target crashed on a call instruction, which may indicate that the control flow is tainted.">>,
    <<"EXPLOITABLE", "DestAv", "Access violation on destination operand",
      "The target crashed on an access violation at an address matching the destination operand of the instruction. This likely indicates a write access violation, which means the attacker may control the write address and/or value.">>,
    <<"EXPLOITABLE", "BranchAvTainted", "Access violation during branch instruction from tainted source",
      "The target crashed on loading from memory (SourceAv). After taint tracking, target operand of branch instruction could be tainted.">>,
    <<"EXPLOITABLE", "CallAvTainted", "Access violation during call instruction from tainted source",
      "The target crashed on loading from memory (SourceAv). After taint tracking, target operand of call instruction could be tainted.">>,
    <<"EXPLOITABLE", "DestAvTainted", "Access violation on destination operand from tainted source",
      "The target crashed on loading from memory (SourceAv). After taint tracking, addres operand of memory store instruction could be tainted. This likely indicates a write access violation, which means the attacker may control the write address and/or value.">>,
    <<"NOT_EXPLOITABLE", "AbortSignal", "Abort signal",
      "The target is stopped on a SIGABRT. SIGABRTs are often generated by libc and compiled check-code to indicate potentially exploitable conditions.">>,
    <<"NOT_EXPLOITABLE", "TrapSignal", "Trap signal",
      "The target is stopped on a SIGTRAP. The SIGTRAP signal is sent to a process when an exception (or trap) occurs: a condition that a debugger has requested to be informed of - for example, when a particular function is executed, or when a particular variable changes value. ">>,
    <<"NOT_EXPLOITABLE", "AccessViolation", "Access violation",
      "The target crashed due to an access violation but there is not enough additional information available to determine exploitability. Manual analysis is needed.">>,
    <<"NOT_EXPLOITABLE", "SourceAv", "Access violation on source operand",
      "The target crashed on an access violation at an address matching the source operand of the current instruction. This likely indicates a read access violation.">>,
    <<"PROBABLY_EXPLOITABLE", "BadInstruction", "Bad instruction",
      "The target tried to execute a malformed or privileged instruction. This may indicate that the control flow is tainted.">>,
    <<"PROBABLY_EXPLOITABLE", "SegFaultOnPcNearNull", "Segmentation fault on program counter near NULL",
      "The target tried to access data at an address that matches the program counter. This may indicate that the program counter contents are tainted, however, it may also indicate a simple NULL dereference.">>,
    <<"PROBABLY_EXPLOITABLE", "BranchAvNearNull", "Access violation near NULL during branch instruction",
      "The target crashed on a branch instruction, which may indicate that the control flow is tainted. However, there is a chance it could be a NULL dereference.">>,
    <<"PROBABLY_EXPLOITABLE", "CallAvNearNull", "Access violation near NULL during call instruction",
      "The target crashed on a call instruction, which may indicate that the control flow is tainted. However, there is a chance it could be a NULL dereference.">>,
    <<"PROBABLY_EXPLOITABLE", "DestAvNearNull", "Access violation near NULL on destination operand",
      "The target crashed on an access violation at an address matching the destination operand of the instruction. This likely indicates a write access violation, which means the attacker may control write address and/or value. However, it there is a chance it could be a NULL dereference.">>,
    <<"NOT_EXPLOITABLE", "SourceAvNearNull", "Access violation near NULL on source operand",
      "The target crashed on an access violation at an address matching the source operand of the current instruction. This likely indicates a read access violation, which may mean the application crashed on a simple NULL dereference to data structure that has no immediate effect on control of the processor.">>,
    <<"PROBABLY_EXPLOITABLE", "StackGuard", "Stack buffer overflow",
      "The target program is aborted due to stack cookie overwrite.">>,
    <<"NOT_EXPLOITABLE", "SafeFunctionCheck", "Safe function check guard",
      "The target program is aborted due to safe function check guard: _chk().">>,
    <<"PROBABLY_EXPLOITABLE", "HeapError", "Heap error",
      "The target program is aborted due to error produced by heap allocator functions.">>,
    <<"NOT_EXPLOITABLE", "FPE", "Arithmetic exception",
      "The target crashed due to arithmetic floating point exception.">>,
    <<"NOT_EXPLOITABLE", "StackOverflow", "Stack overflow",
      "The target crashed on an access violation where the faulting instruction's mnemonic and the stack pointer seem to indicate a stack overflow.">>,
    <<"UNDEFINED", "Undefined", "Undefined class",
      "There is no execution class for this type of exception.">>,
    <<"NOT_EXPLOITABLE", "double-free", "Deallocation of freed memory",
      "The target crashed while trying to deallocate already freed memory.">>,
    <<"NOT_EXPLOITABLE", "bad-free", "Invalid memory deallocation",
      "The target crashed on attempting free on address which was not malloc()-ed.">>,
    <<"NOT_EXPLOITABLE", "alloc-dealloc-mismatch", "Invalid use of alloc/dealloc functions",
      "Mismatch between allocation and deallocation APIs.">>,
    <<"NOT_EXPLOITABLE", "unknown-crash", "Sanitizer check fail",
      "Invalid memory access.">>,
    <<"NOT_EXPLOITABLE", "heap-buffer-overflow(read)", "Heap buffer overflow",
      "The target reads data past the end, or before the beginning, of the intended heap buffer.">>,
    <<"PROBABLY_EXPLOITABLE", "heap-buffer-overflow", "Heap buffer overflow",
      "The target attempts to read or write data past the end, or before the beginning, of the intended heap buffer.">>,
    <<"EXPLOITABLE", "heap-buffer-overflow(write)", "Heap buffer overflow",
      "The target writes data past the end, or before the beginning, of the intended heap buffer.">>,
    <<"NOT_EXPLOITABLE", "global-buffer-overflow(read)", "Global buffer overflow",
      "The target reads data past the end, or before the beginning, of the intended global buffer.">>,
    <<"PROBABLY_EXPLOITABLE", "global-buffer-overflow", "Global buffer overflow",
      "The target attempts to read or write data past the end, or before the beginning, of the intended global buffer.">>,
    <<"EXPLOITABLE", "global-buffer-overflow(write)", "Global buffer overflow",
      "The target writes data past the end, or before the beginning, of the intended global buffer.">>,
    <<"NOT_EXPLOITABLE", "stack-use-after-scope(read)", "Use of out-of-scope stack memory",
      "The target crashed when reading from a stack address outside the lexical scope of a variable's lifetime.">>,
    <<"PROBABLY_EXPLOITABLE", "stack-use-after-scope", "Use of out-of-scope stack memory",
      "The target crashed when using a stack address outside the lexical scope of a variable's lifetime.">>,
    <<"EXPLOITABLE", "stack-use-after-scope(write)", "Use of out-of-scope stack memory",
      "The target crashed when writing on a stack address outside the lexical scope of a variable's lifetime.">>,
    <<"PROBABLY_EXPLOITABLE", "use-after-poison", "Using poisoned memory",
      "The target crashed on trying to use the memory that was previously poisoned.">>,
    <<"NOT_EXPLOITABLE", "stack-use-after-return(read)", "Use of stack memory after return",
      "The target crashed when reading from a stack memory of a returned function.">>,
    <<"PROBABLY_EXPLOITABLE", "stack-use-after-return", "Use of stack memory after return",
      "The target crashed when using a stack memory of a returned function.">>,
    <<"EXPLOITABLE", "stack-use-after-return(write)", "Use of stack memory after return",
      "The target crashed when writing to a stack memory of a returned function.">>,
    <<"NOT_EXPLOITABLE", "stack-buffer-overflow(read)", "Stack buffer overflow",
      "The target reads data past the end, or before the beginning, of the intended stack buffer.">>,
    <<"PROBABLY_EXPLOITABLE", "stack-buffer-overflow", "Stack buffer overflow",
      "The target attempts to read or write data past the end, or before the beginning, of the intended stack buffer.">>,
    <<"EXPLOITABLE", "stack-buffer-overflow(write)", "Stack buffer overflow",
      "The target writes data past the end, or before the beginning, of the intended stack buffer.">>,
    <<"NOT_EXPLOITABLE", "initialization-order-fiasco", "Bad initialization order",
      "Initializer for a global variable accesses dynamically initialized global from another translation unit, which is not yet initialized.">>,
    <<"NOT_EXPLOITABLE", "stack-buffer-underflow(read)", "Stack buffer underflow",
      "The target reads from a buffer using buffer access mechanisms such as indexes or pointers that reference memory locations prior to the targeted buffer.">>,
    <<"PROBABLY_EXPLOITABLE", "stack-buffer-underflow", "Stack buffer underflow",
      "The target is using buffer with an index or pointer that references a memory location prior to the beginning of the buffer.">>,
    <<"EXPLOITABLE", "stack-buffer-underflow(write)", "Stack buffer underflow",
      "The target writes to a buffer using an index or pointer that references a memory location prior to the beginning of the buffer.">>,
    <<"NOT_EXPLOITABLE", "heap-use-after-free(read)", "Use of deallocated memory",
      "The target crashed when reading from memory after it has been freed.">>,
    <<"PROBABLY_EXPLOITABLE", "heap-use-after-free", "Use of deallocated memory",
      "The target crashed when using memory after it has been freed.">>,
    <<"EXPLOITABLE", "heap-use-after-free(write)", "Use of deallocated memory",
      "The target crashed when writing to memory after it has been freed.">>,
    <<"NOT_EXPLOITABLE", "container-overflow(read)", "Container overflow",
      "The target crashed when reading from memory inside the allocated heap region but outside of the current container bounds.">>,
    <<"PROBABLY_EXPLOITABLE", "container-overflow", "Container overflow",
      "The target crashed when using memory inside the allocated heap region but outside of the current container bounds.">>,
    <<"EXPLOITABLE", "container-overflow(write)", "Container overflow",
      "The target crashed when writing to memory inside the allocated heap region but outside of the current container bounds.">>,
    <<"NOT_EXPLOITABLE", "new-delete-type-mismatch", "Invalid use of new/delete functions",
      "Deallocation size different from allocation size.">>,
    <<"NOT_EXPLOITABLE", "bad-malloc_usable_size", "Bad function use",
      "Invalid argument to malloc_usable_size.">>,
    <<"EXPLOITABLE", "param-overlap", "Overlapping memory ranges",
      "Call to function disallowing overlapping memory ranges.">>,
    <<"PROBABLY_EXPLOITABLE", "negative-size-param", "Use of negative size",
      "Negative size used when accessing memory.">>,
    <<"NOT_EXPLOITABLE", "odr-violation", "Multiple symbol definition",
      "Symbol defined in multiple translation units.">>,
    <<"NOT_EXPLOITABLE", "memory-leaks", "Memory leaks",
      "The target does not sufficiently track and release allocated memory after it has been used, which slowly consumes remaining memory.">>,
    <<"PROBABLY_EXPLOITABLE", "calloc-overflow", "Calloc parameters overflow",
      "Overflow in calloc parameters.">>,
    <<"PROBABLY_EXPLOITABLE", "reallocarray-overflow", "Realloc parameters overflow",
      "Overflow in realloc parameters.">>,
    <<"PROBABLY_EXPLOITABLE", "pvalloc-overflow", "Pvalloc parameters overflow",
      "Overflow in pvalloc parameters.">>,
    <<"NOT_EXPLOITABLE", "invalid-allocation-alignment", "Invalid alignment",
      "Invalid allocation alignment.">>,
    <<"NOT_EXPLOITABLE", "invalid-aligned-alloc-alignment", "Invalid alignment",
      "Invalid alignment requested in aligned_alloc.">>,
    <<"NOT_EXPLOITABLE", "invalid-posix-memalign-alignment", "Invalid alignment",
      "Invalid alignment requested in posix_memalign.">>,
    <<"NOT_EXPLOITABLE", "allocation-size-too-big", "Allocation size too big",
      "Requested allocation size exceeds maximum supported size.">>,
    <<"NOT_EXPLOITABLE", "out-of-memory", "Memory limit exceeded",
      "The target has exceeded the memory limit.">>,
    <<"NOT_EXPLOITABLE", "fuzz target exited", "Fuzz target exited",
      "Fuzz target exited.">>,
    <<"NOT_EXPLOITABLE", "timeout", "Target timeout expired",
      "Timeout after several seconds.">>,
    <<"PROBABLY_EXPLOITABLE", "overwrites-const-input", "Attempt to overwrite constant input",
      "Fuzz target overwrites its constant input.">>
>>

NumClasses == Len(CLASSES)

\* ExecutionClass::new: the struct built from a table tuple.
new(class) ==
    [severity          |-> class[1],
     short_description |-> class[2],
     description       |-> class[3],
     explanation       |-> class[4]]

\* The message of the error ExecutionClass::find returns.
ClassNotFound(short_desc) == "Couldn't find class " \o short_desc \o " by name."

\* The outcome of the scan of find, given the rows whose key matched.
first_hit(hits, short_desc) ==
    IF hits = {} THEN Err(ClassNotFound(short_desc))
    ELSE Ok(new(CLASSES[SetMin(hits)]))

\* A plausible slip in find: the key is compared with the wrong tuple field.
find_wrong_field(short_desc) ==
    first_hit({i \in 1..NumClasses : CLASSES[i][3] = short_desc}, short_desc)

\* ExecutionClass::find: scan CLASSES in order, return the first tuple whose
\* second field equals short_desc, else the error.
find(short_desc) ==
    first_hit({i \in 1..NumClasses : CLASSES[i][2] = short_desc}, short_desc)

\* A plausible slip in the "SEGV" arm: the near-null rows exchanged.
segv_class_swapped(acc, near_null) ==
    CASE acc = "READ"  /\ ~near_null -> "SourceAvNearNull"
      [] acc = "READ"  /\ near_null  -> "SourceAv"
      [] acc = "WRITE" /\ ~near_null -> "DestAvNearNull"
      [] acc = "WRITE" /\ near_null  -> "DestAv"
      [] OTHER                       -> "AccessViolation"

\* The name the "SEGV" arm of san_find looks up.
segv_class(acc, near_null) ==
    CASE acc = "READ"  /\ ~near_null -> "SourceAv"
      [] acc = "READ"  /\ near_null  -> "SourceAvNearNull"
      [] acc = "WRITE" /\ ~near_null -> "DestAv"
      [] acc = "WRITE" /\ near_null  -> "DestAvNearNull"
      [] OTHER                       -> "AccessViolation"

\* A plausible slip in the default arm: the access is never appended.
san_pattern_bare(short_desc, acc) == short_desc

\* A plausible slip in the default arm: the suffixes exchanged.
san_pattern_crossed(short_desc, acc) ==
    CASE acc = "READ"  -> short_desc \o "(write)"
      [] acc = "WRITE" -> short_desc \o "(read)"
      [] OTHER         -> short_desc

\* The pattern the default arm of san_find looks up first.
san_pattern(short_desc, acc) ==
    CASE acc = "READ"  -> short_desc \o "(read)"
      [] acc = "WRITE" -> short_desc \o "(write)"
      [] OTHER         -> short_desc

\* One lookup of a fixed name, as the special arms of san_find make it.
san_fixed(name) == [lookups |-> <<name>>, result |-> find(name)]

\* The default arm of san_find, given the pattern and the result of its
\* lookup: that result if Ok, else the lookup of the bare name.
san_default(short_desc, pattern, first) ==
    IF first.ok
    THEN [lookups |-> <<pattern>>, result |-> first]
    ELSE [lookups |-> <<pattern, short_desc>>, result |-> find(short_desc)]

\* The arms of the match of san_find on short_desc, acc being
\* rw.unwrap_or("UNDEF").
san_match(short_desc, acc, near_null) ==
    CASE short_desc = "SEGV"           -> san_fixed(segv_class(acc, near_null))
      [] short_desc = "stack-overflow" -> san_fixed("StackOverflow")
      [] short_desc = "deadly"         -> san_fixed("AbortSignal")
      [] OTHER -> san_default(short_desc, san_pattern(short_desc, acc),
                              find(san_pattern(short_desc, acc)))

\* ExecutionClass::san_find with the names it hands to find, in call order.
san_find_run(short_desc, rw, near_null) ==
    san_match(short_desc, unwrap_or(rw, "UNDEF"), near_null)

\* ExecutionClass::san_find: the class it returns.
san_find(short_desc, rw, near_null) == san_find_run(short_desc, rw, near_null).result

\* impl Default for ExecutionClass.
DefaultClass ==
    [severity          |-> "UNDEFINED",
     short_description |-> "Undefined",
     description       |-> "Undefined class",
     explanation       |-> "The is no execution class for this type of exception"]

(***************************************************************************)
(* Text primitives of the Rust standard library and of the regex crate,    *)
(* on strings read as sequences of characters.                             *)
(***************************************************************************)
Char(s, i) == SubSeq(s, i, i)

\* The part of s from position i to its end.
From(s, i) == IF i > Len(s) THEN "" ELSE SubSeq(s, i, Len(s))

\* pat occurs in s at position i.
StartsAt(s, i, pat) ==
    /\ i >= 1
    /\ i + Len(pat) - 1 <= Len(s)
    /\ SubSeq(s, i, i + Len(pat) - 1) = pat

\* str::contains.
contains(s, pat) == \E i \in 1..(Len(s) - Len(pat) + 1) : StartsAt(s, i, pat)

\* str::is_empty.
is_empty(s) == Len(s) = 0

\* Whitespace: what str::trim strips and what \s matches (\S is the rest).
IsWhite(c) == c \in {" ", "\t", "\n", "\r", "\f"}

\* What \d matches.
IsDigit(c) == c \in {"0", "1", "2", "3", "4", "5", "6", "7", "8", "9"}

\* str::trim: s without its leading and trailing whitespace.
trim_to(s, keep) == IF keep = {} THEN "" ELSE SubSeq(s, SetMin(keep), SetMax(keep))

trim(s) == trim_to(s, {i \in 1..Len(s) : ~IsWhite(Char(s, i))})

\* str::split('\n'), collected: the pieces between line terminators; a text
\* with n terminators gives n + 1 pieces, the empty text one empty piece.
RECURSIVE split(_)

\* s cut at its terminator at position i.
split_at(s, i) == <<SubSeq(s, 1, i - 1)>> \o split(From(s, i + 1))

\* s cut at the first of its terminators, whose positions are nl.
split_on(s, nl) == IF nl = {} THEN <<s>> ELSE split_at(s, SetMin(nl))

split(s) == split_on(s, {i \in 1..Len(s) : Char(s, i) = "\n"})

\* The tool names of the report start pattern, and of the summary pattern.
StartTools == {"LeakSanitizer", "AddressSanitizer", "libFuzzer"}

SummaryTools == {"AddressSanitizer", "libFuzzer"}

\* ==\d+==\s*ERROR: (LeakSanitizer|AddressSanitizer|libFuzzer): matches at i:
\* "==", one or more digits up to j, "==", whitespace up to e, then the rest.
StartMatchAt(s, i) ==
    /\ StartsAt(s, i, "==")
    /\ \E j \in (i + 3)..Len(s) :
          /\ \A k \in (i + 2)..(j - 1) : IsDigit(Char(s, k))
          /\ StartsAt(s, j, "==")
          /\ \E e \in (j + 2)..Len(s) :
                /\ \A k \in (j + 2)..(e - 1) : IsWhite(Char(s, k))
                /\ \E tool \in StartTools : StartsAt(s, e, "ERROR: " \o tool \o ":")

\* rasan_start.is_match(line): the pattern is searched anywhere in the line.
rasan_start_is_match(line) == \E i \in 1..Len(line) : StartMatchAt(line, i)

\* The first position at or after p that holds no space (Len(s) + 1 if none).
SkipSpaces(s, p) ==
    SetMin({q \in p..(Len(s) + 1) : q = Len(s) + 1 \/ Char(s, q) # " "})

\* The end of the longest run of non-whitespace starting at p (p - 1 if empty).
RunEnd(s, p) ==
    SetMin({e \in p..(Len(s) + 1) : e = Len(s) + 1 \/ IsWhite(Char(s, e))}) - 1

\* SUMMARY: *(AddressSanitizer|libFuzzer): (\S+) matches at i with this tool.
\* The tool at p, ": ", and at least one character of \S after it.
SummaryTailAt(s, p, tool) ==
    /\ StartsAt(s, p, tool \o ": ")
    /\ p + Len(tool) + 2 <= Len(s)
    /\ ~IsWhite(Char(s, p + Len(tool) + 2))

SummaryMatchAt(s, i, tool) ==
    /\ StartsAt(s, i, "SUMMARY:")
    /\ SummaryTailAt(s, SkipSpaces(s, i + 8), tool)

\* summary.captures(line): groups 1 and 2 of the leftmost match, or None.
\* The groups of the match whose tool name ends before position b: group 2
\* is the longest run of \S from b.
summary_groups(line, tool, b) ==
    Some([tool |-> tool, check |-> SubSeq(line, b, RunEnd(line, b))])

\* The groups of the match at position i.
summary_groups_at(line, i, tool) ==
    summary_groups(line, tool, SkipSpaces(line, i + 8) + Len(tool) + 2)

\* The groups of the leftmost of the matches, which start at hits.
summary_leftmost(line, hits) ==
    IF hits = {} THEN None
    ELSE summary_groups_at(line, SetMin(hits),
             CHOOSE t \in SummaryTools : SummaryMatchAt(line, SetMin(hits), t))

summary_captures(line) ==
    summary_leftmost(line, {i \in 1..Len(line) :
                               \E tool \in SummaryTools : SummaryMatchAt(line, i, tool)})

\* report.asan_report.iter().find_map(|s| summary.captures(s)).
RECURSIVE find_summary(_)

\* caps if the line matched, else the search goes on in the lines after it.
captures_or(caps, rest) == IF caps # None THEN caps ELSE find_summary(rest)

find_summary(lines) ==
    IF lines = <<>> THEN None
    ELSE captures_or(summary_captures(Head(lines)), Tail(lines))

AccessTokens == {"READ", "WRITE", "ACCESS"}

\* raccess.captures(line).map(group 1): the leftmost READ, WRITE or ACCESS.
raccess_leftmost(line, hits) ==
    IF hits = {} THEN None
    ELSE Some(CHOOSE t \in AccessTokens : StartsAt(line, SetMin(hits), t))

raccess_capture(line) ==
    raccess_leftmost(line, {i \in 1..Len(line) :
                               \E t \in AccessTokens : StartsAt(line, i, t)})

\* Vec position / rposition of the first / last element satisfying a test,
\* as 1-based indices; 0 when there is none.
FirstIndex(S) == IF S = {} THEN 0 ELSE SetMin(S)

LastIndex(S) == IF S = {} THEN 0 ELSE SetMax(S)

(***************************************************************************)
(* Bounds of the model and the inputs drawn within them.                   *)
(***************************************************************************)
\* Longest captured text, in lines, over the lines of an ASan report.
MaxLines == 5

\* Most lines after the opening line in a captured report of any tool.
MaxTail == 2

\* Longest captured text, in lines, of a target that printed no report.
MaxPlainLines == 1

\* Most lines after the blank line that ends the stack trace of a report.
MaxAfterTrace == 1

\* Longest memory-map blob of the debugger, in lines.
MaxMapLines == 6

\* How often one lookup is repeated.
MaxCalls == 2

BoundedSeq(S, n) == UNION {[1..k -> S] : k \in 0..n}

\* Lines joined by the line terminator: the text whose split is lines.
RECURSIVE Join(_)
Join(lines) ==
    IF lines = <<>> THEN ""
    ELSE IF Len(lines) = 1 THEN lines[1]
    ELSE lines[1] \o "\n" \o Join(Tail(lines))

AsanStartLine == "==1234==ERROR: AddressSanitizer: heap-buffer-overflow"

WriteLine == "WRITE of size 4"

FrameZeroLine == "    #0 0x4f in foo a.c:3"

AsanSummaryLine == "SUMMARY: AddressSanitizer: heap-buffer-overflow a.c:3"

LeakStartLine == "==12==ERROR: LeakSanitizer: detected memory leaks"

FuzzerStartLine == "==7==ERROR: libFuzzer: deadly signal"

ReadLine == "READ of size 1"

FuzzerSummaryLine == "SUMMARY: libFuzzer: heap-buffer-overflow"

SegvSummaryLine == "SUMMARY: AddressSanitizer: SEGV a.c:3"

LeakSummaryLine == "SUMMARY: AddressSanitizer: 7 byte(s) leaked"

OomLine == "==12==ERROR: AddressSanitizer: hard rss limit exhausted"

PlainLine == "Segmentation fault"

\* The lines of one AddressSanitizer report.
CoreLines == {AsanStartLine, WriteLine, FrameZeroLine, "", AsanSummaryLine}

\* The lines that follow the opening line in the reports of the three tools.
ReportLines ==
    {WriteLine, ReadLine, FrameZeroLine, "", AsanSummaryLine, FuzzerSummaryLine,
     SegvSummaryLine, LeakSummaryLine}

\* The lines that open a report.
OpeningLines == {AsanStartLine, LeakStartLine, FuzzerStartLine}

\* The captured texts: the lines of one ASan report in any arrangement of
\* up to MaxLines lines that holds its opening line once (the sanitizer
\* stops the target at the first error); an opening line of any tool with
\* up to MaxTail lines of any report after it; an opening line of any tool,
\* a one-frame stack trace, the blank line that ends it and up to
\* MaxAfterTrace lines of any report; and the short outputs of a target that
\* printed no report or ran out of memory.
InputTexts ==
    {Join(t) : t \in {u \in BoundedSeq(CoreLines, MaxLines) :
                         Cardinality({i \in 1..Len(u) : u[i] = AsanStartLine}) = 1}}
    \cup {Join(<<o>> \o t) : o \in OpeningLines, t \in BoundedSeq(ReportLines, MaxTail)}
    \cup {Join(<<o, FrameZeroLine, "">> \o t) :
              o \in OpeningLines, t \in BoundedSeq(ReportLines, MaxAfterTrace)}
    \cup {Join(t) : t \in BoundedSeq({PlainLine, OomLine}, MaxPlainLines)}

\* sanitizers_result.status.signal(): the signals the model draws.
Signals == {4, 6, 8, 11}

\* gdb's backtrace output.
BtBlobs == {"#0  0x4f in foo () at a.c:3\n#1  0x5a in main () at a.c:9",
            "  No stack."}

MapHeaderLine == "Mapped address spaces:"

MapEntryLine == "0x400000 0x401000 0x1000 0x0 /bin/t"

\* gdb's memory-map output: any lines, in any order.
MapBlobs == {Join(t) : t \in BoundedSeq({MapHeaderLine, MapEntryLine}, MaxMapLines)}

\* The lines .skip(4) drops from the memory-map output.
MapSkip == 4

\* The target's command line.
Argv == <<"./target", "crash-input">>

\* What debug::crash_line and debug::sources answer: no location, a location
\* in the binary, a source location without or with its source lines.
CrashLines ==
    {[ok |-> FALSE, crashline |-> "", source |-> <<>>],
     [ok |-> TRUE,  crashline |-> "/bin/t+0x4f", source |-> <<>>],
     [ok |-> TRUE,  crashline |-> "a.c:3", source |-> <<>>],
     [ok |-> TRUE,  crashline |-> "a.c:3", source |-> <<"--->3  p[4] = 0;">>]}

\* The queries put to the classification engine: every name of the table,
\* the names san_find treats specially, and names the table does not hold.
TableNames == {CLASSES[i][2] : i \in 1..NumClasses}

QueryNames ==
    TableNames \cup {"SEGV", "stack-overflow", "deadly", "segv", "",
                     "no-such-check", "7"}

QueryAccess == {None, Some("READ"), Some("WRITE"), Some("ACCESS"),
                Some("UNDEFINED"), Some("read")}

Queries ==
    [op : {"find"}, short_desc : QueryNames, rw : {None}, near_null : {FALSE}]
    \cup [op : {"san_find"}, short_desc : QueryNames, rw : QueryAccess,
          near_null : BOOLEAN]

(***************************************************************************)
(* State.                                                                  *)
(***************************************************************************)
VARIABLES
    pc,                 \* where main stands
    sanitizers_stderr,  \* the captured stderr of the target
    san_stderr_list,    \* its lines
    report_start,       \* Some(index of the report's first line) or None
    status,             \* the termination signal, once main has read it
    report,             \* the CrashReport
    error,              \* the message main bailed or panicked with
    gdb_calls,          \* launches of the debugger
    gdb_result,         \* the two outputs of the debugger
    resolver_calls,     \* calls of debug::crash_line
    emitted,            \* the serialized reports written, with their sink
    query,              \* the lookup put to the classification engine
    answer,             \* Some(its latest result)
    prev_answer,        \* Some(the result before that)
    looked_up,          \* the names the latest call handed to the table scan
    ncalls              \* how often the lookup was made

vars == <<pc, sanitizers_stderr, san_stderr_list, report_start, status, report,
          error, gdb_calls, gdb_result, resolver_calls, emitted, query, answer,
          prev_answer, looked_up, ncalls>>

pipeline_vars == <<pc, sanitizers_stderr, san_stderr_list, report_start, status,
                   report, error, gdb_calls, gdb_result, resolver_calls,
                   emitted>>

engine_vars == <<query, answer, prev_answer, looked_up, ncalls>>

\* CrashReport::new(): every field empty, the class the default class.
CrashReport_new ==
    [executable_path |-> "",
     proc_cmdline    |-> "",
     execution_class |-> DefaultClass,
     asan_report     |-> <<>>,
     stacktrace      |-> <<>>,
     proc_maps       |-> <<>>,
     crashline       |-> "",
     source          |-> <<>>]

NoQuery == [op |-> "none", short_desc |-> "", rw |-> None, near_null |-> FALSE]

PipelineIdle ==
    /\ pc = "Idle"
    /\ sanitizers_stderr = ""
    /\ san_stderr_list = <<>>
    /\ report_start = None
    /\ status = [known |-> FALSE, signal |-> None]
    /\ report = CrashReport_new
    /\ error = ""
    /\ gdb_calls = 0
    /\ gdb_result = <<>>
    /\ resolver_calls = 0
    /\ emitted = <<>>

EngineIdle ==
    /\ query = NoQuery
    /\ answer = None
    /\ prev_answer = None
    /\ looked_up = <<>>
    /\ ncalls = 0

(***************************************************************************)
(* The classification engine, called directly.                             *)
(***************************************************************************)
InitEngine ==
    /\ PipelineIdle
    /\ query \in Queries
    /\ answer = None
    /\ prev_answer = None
    /\ looked_up = <<>>
    /\ ncalls = 0

\* One call of ExecutionClass::find(query.short_desc).
CallFind ==
    /\ query.op = "find"
    /\ ncalls < MaxCalls
    /\ answer' = Some(find(query.short_desc))
    /\ prev_answer' = answer
    /\ looked_up' = <<query.short_desc>>
    /\ ncalls' = ncalls + 1
    /\ UNCHANGED <<query, pipeline_vars>>

\* One call of ExecutionClass::san_find(short_desc, rw, near_null).
CallSanFind ==
    /\ query.op = "san_find"
    /\ ncalls < MaxCalls
    /\ answer' = Some(san_find(query.short_desc, query.rw, query.near_null))
    /\ prev_answer' = answer
    /\ looked_up' = san_find_run(query.short_desc, query.rw, query.near_null).lookups
    /\ ncalls' = ncalls + 1
    /\ UNCHANGED <<query, pipeline_vars>>

NextEngine == CallFind \/ CallSanFind

SpecEngine == InitEngine /\ [][NextEngine]_vars

(***************************************************************************)
(* The pipeline of main, casr-san.rs:125-307.                              *)
(***************************************************************************)
Init ==
    /\ EngineIdle
    /\ pc = "Start"
    /\ sanitizers_stderr \in InputTexts
    /\ san_stderr_list = <<>>
    /\ report_start = None
    /\ status = [known |-> FALSE, signal |-> None]
    /\ report = CrashReport_new
    /\ error = ""
    /\ gdb_calls = 0
    /\ gdb_result = <<>>
    /\ resolver_calls = 0
    /\ emitted = <<>>

\* The messages main bails with.
OutOfMemory == "Out of memory: hard_rss_limit_mb exhausted"

StackTraceNotFound == "Couldn't find stack trace in sanitizer's report"

StackTraceEndNotFound == "Couldn't find stack trace end in sanitizer's report"

NoCrashDetected == "Program terminated (no crash)"

ExternalToolFailure == "Unable to get results from gdb"

PersistenceFailure == "Couldn't save report to file"

\* bail!(msg): main returns the error; nothing runs after it.
Bail(msg) ==
    /\ pc' = "Failed"
    /\ error' = msg

\* A panic (unwrap of an Err): the process aborts; nothing runs after it.
Panic(msg) ==
    /\ pc' = "Panicked"
    /\ error' = msg

\* Lines 127-136: the out-of-memory check, then the report with its
\* identity fields.
CreateReport ==
    /\ pc = "Start"
    /\ IF contains(sanitizers_stderr, "AddressSanitizer: hard rss limit exhausted")
       THEN /\ Bail(OutOfMemory)
            /\ UNCHANGED report
       ELSE /\ report' = [CrashReport_new EXCEPT
                             !.executable_path = Argv[1],
                             !.proc_cmdline = Argv[1] \o " " \o Argv[2]]
            /\ pc' = "Init"
            /\ UNCHANGED error
    /\ UNCHANGED <<sanitizers_stderr, san_stderr_list, report_start, status,
                   gdb_calls, gdb_result, resolver_calls, emitted, engine_vars>>

\* position(|line| rasan_start.is_match(line)), 1-based, 0 for None.
find_report_start(lines) ==
    FirstIndex({i \in 1..Len(lines) : rasan_start_is_match(lines[i])})

\* A plausible slip: the report runs to the last line of the text.
find_report_end_of_text(lines) == Len(lines)

\* rposition(|s| !s.is_empty()).unwrap() + 1: as a 1-based index, the last
\* non-empty line itself.
find_report_end(lines) ==
    LastIndex({i \in 1..Len(lines) : ~is_empty(lines[i])})

\* Lines 149-151: the lines of the report, from its first line (1-based
\* index start) to the last non-empty line of the text.
excerpt(lines, start) == SubSeq(lines, start, find_report_end(lines))

\* Lines 145-151 for the lines of the text and the report start found.
IngestAt(lines, start) ==
    /\ san_stderr_list' = lines
    /\ IF start # 0
       THEN /\ report_start' = Some(start)
            /\ report' = [report EXCEPT !.asan_report = excerpt(lines, start)]
       ELSE /\ report_start' = None
            /\ UNCHANGED report

IngestLines(lines) == IngestAt(lines, find_report_start(lines))

\* Lines 138-151: split the text, find the report, store its lines.
Ingest ==
    /\ pc = "Init"
    /\ IngestLines(split(sanitizers_stderr))
    /\ pc' = "Ingested"
    /\ UNCHANGED <<sanitizers_stderr, status, error, gdb_calls, gdb_result,
                   resolver_calls, emitted, engine_vars>>

\* A plausible slip: the access type is read from the first line.
mem_access_first_line(asan_report) == raccess_capture(asan_report[1])

\* Lines 170-177: the access type on the second line of the report.
mem_access(asan_report) ==
    IF Len(asan_report) >= 2 THEN raccess_capture(asan_report[2]) ELSE None

\* A plausible slip: the access type is passed for libFuzzer too.
summary_lookup_with_access(caps, access, near_null) ==
    IF caps = None THEN None
    ELSE Some(san_find(caps[1].check, access, near_null))

\* Lines 157-184: the lookup for the captures caps of the summary line and
\* the access type of the second line; None when no line matched.  The call
\* of san_find in main passes no near_null: it is an input here.
summary_lookup(caps, access, near_null) ==
    IF caps = None THEN None
    ELSE IF caps[1].tool = "libFuzzer"
    THEN Some(san_find(caps[1].check, None, near_null))
    ELSE Some(san_find(caps[1].check, access, near_null))

\* Line 152: the report is LeakSanitizer's.
is_leak(asan_report) == contains(asan_report[1], "LeakSanitizer")

\* Lines 152-185: the lookup that classifies a sanitizer report, leak being
\* the test of line 152; None when no lookup is made.
san_lookup(leak, caps, access, near_null) ==
    IF leak THEN Some(find("memory-leaks"))
    ELSE summary_lookup(caps, access, near_null)

\* A plausible slip: every failed lookup aborts the run.
ClassifyUnwrapping(res, unwrapped) ==
    IF res = None
    THEN /\ pc' = "Classifying"
         /\ UNCHANGED <<report, error>>
    ELSE IF res[1].ok
    THEN /\ report' = [report EXCEPT !.execution_class = res[1].val]
         /\ pc' = "Classifying"
         /\ UNCHANGED error
    ELSE /\ Panic(res[1].err)
         /\ UNCHANGED report

\* The class is set from the result of a lookup: an Ok sets it, no lookup
\* leaves it alone, an Err panics where the code unwraps the result and
\* leaves the class alone where it tests the result with `if let Ok`.
Classify(res, unwrapped) ==
    IF res = None
    THEN /\ pc' = "Classifying"
         /\ UNCHANGED <<report, error>>
    ELSE IF res[1].ok
    THEN /\ report' = [report EXCEPT !.execution_class = res[1].val]
         /\ pc' = "Classifying"
         /\ UNCHANGED error
    ELSE IF unwrapped
    THEN /\ Panic(res[1].err)
         /\ UNCHANGED report
    ELSE /\ pc' = "Classifying"
         /\ UNCHANGED <<report, error>>

\* Lines 152-185 for the test of line 152, the captures of the summary
\* line and the access type of the second line.
ClassifyBy(leak, caps, access) ==
    \E near_null \in BOOLEAN :
        Classify(san_lookup(leak, caps, access, near_null), leak)

\* Lines 152-185: classify the sanitizer report.
ClassifySan ==
    /\ pc = "Ingested"
    /\ report_start # None
    /\ ClassifyBy(is_leak(report.asan_report), find_summary(report.asan_report),
                  mem_access(report.asan_report))
    /\ UNCHANGED <<sanitizers_stderr, san_stderr_list, report_start, status,
                   gdb_calls, gdb_result, resolver_calls, emitted, engine_vars>>

\* Line 188: position(|x| x.contains(" #0 ")), 1-based, 0 for None.
first_frame(asan_report) ==
    FirstIndex({i \in 1..Len(asan_report) : contains(asan_report[i], " #0 ")})

\* Lines 195-199: skip(first).position(|val| val.is_empty()), as the 1-based
\* index of that empty line in the report, 0 for None.
trace_end(asan_report, first) ==
    FirstIndex({i \in first..Len(asan_report) : is_empty(asan_report[i])})

\* A plausible slip: the lines are stored as they are.
trace_lines_untrimmed(asan_report, first, last) ==
    [i \in 1..(last - first) |-> asan_report[first + i - 1]]

\* Lines 204-207: the lines first .. last - 1 of the report, trimmed.
trace_lines(asan_report, first, last) ==
    [i \in 1..(last - first) |-> trim(asan_report[first + i - 1])]

\* Lines 189-207 for the positions found.
ExtractAt(first, last) ==
    IF first = 0
    THEN /\ Bail(StackTraceNotFound)
         /\ UNCHANGED report
    ELSE IF last = 0
    THEN /\ Bail(StackTraceEndNotFound)
         /\ UNCHANGED report
    ELSE /\ report' = [report EXCEPT !.stacktrace =
                          trace_lines(report.asan_report, first, last)]
         /\ pc' = "TraceExtracted"
         /\ UNCHANGED error

ExtractFrom(first) ==
    \E last \in {IF first = 0 THEN 0 ELSE trace_end(report.asan_report, first)} :
        ExtractAt(first, last)

\* Lines 187-207: the stack trace of a sanitizer report.
ExtractSan ==
    /\ pc = "Classifying"
    /\ report_start # None
    /\ \E first \in {first_frame(report.asan_report)} : ExtractFrom(first)
    /\ UNCHANGED <<sanitizers_stderr, san_stderr_list, report_start, status,
                   gdb_calls, gdb_result, resolver_calls, emitted, engine_vars>>

\* A plausible slip: the classes of signals 4 and 6 exchanged.
signal_lookup_swapped(signal) ==
    CASE signal = 4  -> Some(find("AbortSignal"))
      [] signal = 6  -> Some(find("BadInstruction"))
      [] signal = 11 -> Some(find("SEGV"))
      [] OTHER       -> None

\* Lines 211-225: the lookup the termination signal asks for; None for a
\* signal that leaves the default class.
signal_lookup(signal) ==
    CASE signal = 4  -> Some(find("BadInstruction"))
      [] signal = 6  -> Some(find("AbortSignal"))
      [] signal = 11 -> Some(find("SEGV"))
      [] OTHER       -> None

\* A plausible slip: a clean exit is taken for a signal without a class.
ClassifySignalLenient ==
    /\ pc = "Ingested"
    /\ report_start = None
    /\ \E sig \in {None} \cup {Some(n) : n \in Signals} :
          /\ status' = [known |-> TRUE, signal |-> sig]
          /\ IF sig = None
             THEN Classify(None, TRUE)
             ELSE Classify(signal_lookup(sig[1]), TRUE)
    /\ UNCHANGED <<sanitizers_stderr, san_stderr_list, report_start, gdb_calls,
                   gdb_result, resolver_calls, emitted, engine_vars>>

\* Lines 209-225 and 245-248: no report was found; read the termination
\* signal and classify by it.  Each lookup is unwrapped.
ClassifySignal ==
    /\ pc = "Ingested"
    /\ report_start = None
    /\ \E sig \in {None} \cup {Some(n) : n \in Signals} :
          /\ status' = [known |-> TRUE, signal |-> sig]
          /\ IF sig = None
             THEN /\ Bail(NoCrashDetected)
                  /\ UNCHANGED report
             ELSE Classify(signal_lookup(sig[1]), TRUE)
    /\ UNCHANGED <<sanitizers_stderr, san_stderr_list, report_start, gdb_calls,
                   gdb_result, resolver_calls, emitted, engine_vars>>

\* Iterator::skip(n), collected.
skip(seq, n) == IF Len(seq) <= n THEN <<>> ELSE SubSeq(seq, n + 1, Len(seq))

\* Lines 236-239: the stack trace from gdb's backtrace.
gdb_stacktrace(bt) == split(bt)

\* A plausible slip: one line too few is skipped.
gdb_proc_maps_short(maps) == skip(split(maps), MapSkip - 1)

\* Lines 240-244: the memory map from gdb's mappings.
gdb_proc_maps(maps) == skip(split(maps), MapSkip)

\* Lines 227-244: launch gdb; it fails, or answers with the backtrace and
\* the mappings.
GdbTrace ==
    /\ pc = "Classifying"
    /\ report_start = None
    /\ gdb_calls' = gdb_calls + 1
    /\ \/ /\ Bail(ExternalToolFailure)
          /\ UNCHANGED <<report, gdb_result>>
       \/ \E bt \in BtBlobs, maps \in MapBlobs :
             /\ gdb_result' = <<bt, maps>>
             /\ report' = [report EXCEPT !.stacktrace = gdb_stacktrace(bt),
                                         !.proc_maps = gdb_proc_maps(maps)]
             /\ pc' = "TraceExtracted"
             /\ UNCHANGED error
    /\ UNCHANGED <<sanitizers_stderr, san_stderr_list, report_start, status,
                   resolver_calls, emitted, engine_vars>>

\* A plausible slip: storing the crash line resets the stack trace.
with_crash_line_dropping_trace(rep, r) ==
    IF r.ok
    THEN [rep EXCEPT !.crashline = r.crashline,
                     !.source = IF r.source # <<>> THEN r.source ELSE @,
                     !.stacktrace = <<>>]
    ELSE rep

\* Lines 252-259: the report with the answer r of the resolver stored.
with_crash_line(rep, r) ==
    IF r.ok
    THEN [rep EXCEPT !.crashline = r.crashline,
                     !.source = IF r.source # <<>> THEN r.source ELSE @]
    ELSE rep

\* Lines 251-259: the crash line, best effort.  gdb_result went out of
\* scope with the block that ends at line 245.
CrashLine ==
    /\ pc = "TraceExtracted"
    /\ resolver_calls' = resolver_calls + 1
    /\ \E r \in CrashLines : report' = with_crash_line(report, r)
    /\ gdb_result' = <<>>
    /\ pc' = "LineResolved"
    /\ UNCHANGED <<sanitizers_stderr, san_stderr_list, report_start, status,
                   error, gdb_calls, emitted, engine_vars>>

\* The sinks of the report: exactly one of --stdout and --output is given.
Sinks == {"stdout", "output"}

\* Lines 261-307: serialize the report and write it to the sink; the report
\* file may fail to open or to be written.  emitted records which report
\* went to which sink; the JSON text serde_json builds is not computed.
Serialize ==
    /\ pc = "LineResolved"
    /\ \E sink \in Sinks :
          \/ /\ emitted' = Append(emitted, [sink |-> sink, repstr |-> report])
             /\ pc' = "Finalized"
             /\ UNCHANGED error
          \/ /\ sink = "output"
             /\ Bail(PersistenceFailure)
             /\ UNCHANGED emitted
    /\ UNCHANGED <<sanitizers_stderr, san_stderr_list, report_start, status,
                   report, gdb_calls, gdb_result, resolver_calls, engine_vars>>

Next ==
    \/ CreateReport
    \/ Ingest
    \/ ClassifySan
    \/ ExtractSan
    \/ ClassifySignal
    \/ GdbTrace
    \/ CrashLine
    \/ Serialize

Spec == Init /\ [][Next]_vars

(***************************************************************************)
(* Properties of the classification engine.                                *)
(***************************************************************************)
\* The rows of the table that carry a short name, and the class of a row.
RowsNamed(name) == {i \in 1..NumClasses : CLASSES[i][2] = name}

IsRow(class, i) ==
    /\ class.severity = CLASSES[i][1]
    /\ class.short_description = CLASSES[i][2]
    /\ class.description = CLASSES[i][3]
    /\ class.explanation = CLASSES[i][4]

\* r is the table record named name: found, and equal field for field to
\* the one row of that name.
IsEntry(r, name) ==
    /\ r.ok
    /\ Cardinality(RowsNamed(name)) = 1
    /\ \A i \in RowsNamed(name) : IsRow(r.val, i)

\* r is the ClassNotFound error.
IsNotFound(r) == ~r.ok

\* C1: find returns, for every short name of the table, the one record of
\* that name with its severity, description and explanation (no two rows
\* share a name); a repeated call returns an equal record; for a name the
\* table does not hold it returns the ClassNotFound error.
C1_FindByName ==
    (query.op = "find" /\ ncalls >= 1) =>
        /\ query.short_desc \in TableNames => IsEntry(answer[1], query.short_desc)
        /\ query.short_desc \notin TableNames =>
               /\ IsNotFound(answer[1])
               /\ answer[1].err = ClassNotFound(query.short_desc)
        /\ ncalls >= 2 => answer = prev_answer

C1_Witness ==
    /\ query.op = "find"
    /\ query.short_desc = "heap-buffer-overflow(write)"
    /\ ncalls = 2
    /\ answer[1].ok
    /\ answer[1].val.severity = "EXPLOITABLE"

\* The class the SEGV rule of derive names for an access and near_null.
SegvExpected(rw, near_null) ==
    IF rw = Some("READ") THEN (IF near_null THEN "SourceAvNearNull" ELSE "SourceAv")
    ELSE IF rw = Some("WRITE") THEN (IF near_null THEN "DestAvNearNull" ELSE "DestAv")
    ELSE "AccessViolation"

\* C2: san_find applies its special names before any lookup of the name
\* itself: "SEGV" gives SourceAv, SourceAvNearNull, DestAv, DestAvNearNull
\* by (READ | WRITE, near_null) and AccessViolation for every other access;
\* "stack-overflow" gives StackOverflow and "deadly" AbortSignal, for every
\* access and near_null; the special name itself is never looked up.
C2_SpecialNames ==
    (query.op = "san_find" /\ ncalls >= 1) =>
        /\ query.short_desc = "SEGV" =>
               /\ IsEntry(answer[1], SegvExpected(query.rw, query.near_null))
               /\ looked_up = <<SegvExpected(query.rw, query.near_null)>>
        /\ query.short_desc = "stack-overflow" =>
               /\ IsEntry(answer[1], "StackOverflow")
               /\ looked_up = <<"StackOverflow">>
        /\ query.short_desc = "deadly" =>
               /\ IsEntry(answer[1], "AbortSignal")
               /\ looked_up = <<"AbortSignal">>

C2_Witness ==
    /\ query.op = "san_find"
    /\ query.short_desc = "SEGV"
    /\ query.rw = Some("WRITE")
    /\ query.near_null
    /\ ncalls >= 1
    /\ answer[1].ok
    /\ answer[1].val.short_description = "DestAvNearNull"

SpecialNames == {"SEGV", "stack-overflow", "deadly"}

\* The suffix derive appends for an access qualifier ("" for none).
SuffixOf(rw) ==
    IF rw = Some("READ") THEN "(read)"
    ELSE IF rw = Some("WRITE") THEN "(write)"
    ELSE ""

\* C3: for every other name, san_find with READ (WRITE) returns the entry
\* name(read) (name(write)) when the table holds it and else the entry of
\* the bare name; with any other or no access it looks up only the bare
\* name; it returns ClassNotFound only when every lookup it made failed.
C3_QualifiedLookup ==
    (query.op = "san_find" /\ ncalls >= 1 /\ query.short_desc \notin SpecialNames) =>
        LET name      == query.short_desc
            qualified == name \o SuffixOf(query.rw)
        IN  /\ qualified \in TableNames => IsEntry(answer[1], qualified)
            /\ (qualified \notin TableNames /\ name \in TableNames) =>
                   IsEntry(answer[1], name)
            /\ SuffixOf(query.rw) = "" =>
                   \A k \in 1..Len(looked_up) : looked_up[k] = name
            /\ IsNotFound(answer[1]) <=>
                   \A k \in 1..Len(looked_up) : looked_up[k] \notin TableNames
            /\ Len(looked_up) >= 1

C3_Witness ==
    /\ query.op = "san_find"
    /\ query.short_desc = "heap-buffer-overflow"
    /\ query.rw = Some("WRITE")
    /\ ncalls >= 1
    /\ answer[1].ok
    /\ answer[1].val.short_description = "heap-buffer-overflow(write)"
    /\ answer[1].val.severity = "EXPLOITABLE"

(***************************************************************************)
(* Properties of the pipeline.                                             *)
(***************************************************************************)
\* The sanitizer path was taken and classification is over.
SanClassified ==
    /\ report_start # None
    /\ \/ pc \in {"Classifying", "TraceExtracted", "LineResolved", "Finalized"}
       \/ pc = "Failed"

\* The sanitizer path was taken and stack-trace extraction is over.
SanExtractionOver ==
    /\ report_start # None
    /\ \/ pc \in {"TraceExtracted", "LineResolved", "Finalized"}
       \/ pc = "Failed"

\* The class of the report is the table entry of this name.
ClassIs(name) ==
    /\ Cardinality(RowsNamed(name)) = 1
    /\ \A i \in RowsNamed(name) : IsRow(report.execution_class, i)

\* The text of C4: the ASan heap-buffer-overflow line, after it a line with
\* "WRITE of size 4", after it a frame-zero line, after it a blank line.
C4_Text(lines) ==
    \E a, b, c, d \in 1..Len(lines) :
        /\ a < b /\ b < c /\ c < d
        /\ lines[a] = AsanStartLine
        /\ contains(lines[b], "WRITE of size 4")
        /\ contains(lines[c], " #0 ")
        /\ lines[d] = ""

C4_TextAt(lines, s, c) ==
    /\ s >= 1
    /\ lines[s] = AsanStartLine
    /\ s + 1 <= Len(lines)
    /\ c >= s
    /\ \E d, e \in (c + 1)..Len(lines) : d < e /\ lines[d] = "" /\ lines[e] # ""
    /\ contains(lines[c], " #0 ")
    /\ contains(lines[s + 1], "WRITE of size 4")
    /\ raccess_capture(lines[s + 1]) = Some("WRITE")
    /\ \A k \in s..(c - 1) : ~contains(lines[k], " #0 ")
    /\ \A k \in 1..(s - 1) : ~rasan_start_is_match(lines[k])
    /\ \E m \in s..Len(lines) :
          /\ summary_captures(lines[m])
                = Some([tool |-> "AddressSanitizer", check |-> "heap-buffer-overflow"])
          /\ \A k \in s..(m - 1) : summary_captures(lines[k]) = None

SignalIs(n) ==
    /\ report_start = None
    /\ status.known
    /\ status.signal = Some(n)

SegvClasses ==
    {"SourceAv", "SourceAvNearNull", "DestAv", "DestAvNearNull", "AccessViolation"}

\* The claim C5: with no report in the text and termination signal 11, the
\* class is one of the classes of the SEGV derivation, classification does
\* not fail, and the pipeline goes on to the debugger.
C5_SegvSignal ==
    SignalIs(11) =>
        /\ pc # "Panicked"
        /\ report.execution_class.short_description \in SegvClasses

\* The failures that can follow a classification by signal.
LaterFailure == pc = "Failed" /\ error \in {ExternalToolFailure, PersistenceFailure}

\* C6: on the signal path, signal 4 gives BadInstruction, signal 6
\* AbortSignal, and a signal other than 4, 6 and 11 leaves the default class;
\* the pipeline then goes on to the debugger: classification does not fail,
\* the debugger is the next step, and a trace is stored only from its output.
C6_SignalClasses ==
    \A n \in Signals \ {11} :
        SignalIs(n) =>
            /\ n = 4 => ClassIs("BadInstruction")
            /\ n = 6 => ClassIs("AbortSignal")
            /\ n \notin {4, 6} => report.execution_class = DefaultClass
            /\ pc \in {"Classifying", "TraceExtracted", "LineResolved", "Finalized"}
                  \/ LaterFailure
            /\ pc = "Classifying" => (gdb_calls = 0 /\ ENABLED GdbTrace)
            /\ pc # "Classifying" => gdb_calls = 1
            /\ pc = "TraceExtracted" => gdb_result # <<>>
            /\ pc \in {"TraceExtracted", "LineResolved", "Finalized"} =>
                  report.stacktrace # <<>>

C6_Witness ==
    /\ SignalIs(6)
    /\ pc = "TraceExtracted"
    /\ report.execution_class.short_description = "AbortSignal"
    /\ gdb_calls = 1

FrameZeroAt(ex) == {i \in 1..Len(ex) : contains(ex[i], " #0 ")}

EmptyFrom(ex, f) == {i \in f..Len(ex) : ex[i] = ""}

\* A line without surrounding whitespace.
IsTrimmed(s) == s = "" \/ (~IsWhite(Char(s, 1)) /\ ~IsWhite(Char(s, Len(s))))

\* st is the run of ex from f up to, not including, e, each line trimmed,
\* in the same order.
IsTrimmedRun(st, ex, f, e) ==
    /\ Len(st) = e - f
    /\ \A k \in 1..Len(st) :
          /\ IsTrimmed(st[k])
          /\ st[k] # ""
          /\ contains(ex[f + k - 1], st[k])
          /\ st[k] = trim(ex[f + k - 1])

\* The outcome of extraction C8 states for a report ex whose frame-zero
\* lines are at F.
C8_Outcome(ex, F) ==
    IF F = {}
    THEN /\ pc = "Failed"
         /\ error = StackTraceNotFound
         /\ emitted = <<>>
         /\ report.stacktrace = <<>>
    ELSE IF EmptyFrom(ex, SetMin(F)) = {}
    THEN /\ pc = "Failed"
         /\ error = StackTraceEndNotFound
         /\ emitted = <<>>
         /\ report.stacktrace = <<>>
    ELSE /\ pc = "Failed" => error = PersistenceFailure
         /\ IsTrimmedRun(report.stacktrace, ex, SetMin(F),
                         SetMin(EmptyFrom(ex, SetMin(F))))

\* C8: the stack trace of a sanitizer report is the run of lines from the
\* first line containing " #0 " up to, not including, the first empty line
\* at or after it, each trimmed, in order; without a frame-zero line
\* extraction fails with StackTraceNotFound, without an empty line after it
\* with StackTraceEndNotFound, and then no report is produced.
C8_SanitizerTrace ==
    SanExtractionOver => C8_Outcome(report.asan_report, FrameZeroAt(report.asan_report))

C8_Witness ==
    /\ pc = "TraceExtracted"
    /\ report_start # None
    /\ Len(report.stacktrace) >= 2
    /\ report.stacktrace[1] = "#0 0x4f in foo a.c:3"
    /\ report.stacktrace[2] = "WRITE of size 4"
    /\ report.asan_report[1] = AsanStartLine

\* The signal path was taken and the debugger has answered.
GdbAnswered == report_start = None /\ gdb_result # <<>>

\* The lines of a blob: its pieces between line terminators.
IsLinesOf(lines, blob) == Join(lines) = blob /\ \A k \in 1..Len(lines) : ~contains(lines[k], "\n")

\* The claim C9 as written: a map blob of n lines is stored as n - 4 lines.
C9_AsWritten ==
    GdbAnswered => Len(report.proc_maps) = Len(split(gdb_result[2])) - 4

\* kept is all with its first n elements removed (all of them if it has
\* fewer), the rest in order.
IsRest(kept, all, n) ==
    /\ Len(kept) = (IF Len(all) >= n THEN Len(all) - n ELSE 0)
    /\ \A k \in 1..Len(kept) : kept[k] = all[k + n]

\* C9 (amended): the stored memory map is the lines of the map blob without
\* the first 4, whatever they hold, the rest verbatim and in order: n - 4
\* lines for a blob of n >= 4 lines, none for a shorter blob; the stored
\* stack trace is the lines of the backtrace blob, none removed or trimmed.
C9_MapOf(all) == IsLinesOf(all, gdb_result[2]) /\ IsRest(report.proc_maps, all, 4)

C9_DebuggerOutputs ==
    GdbAnswered =>
        /\ IsLinesOf(report.stacktrace, gdb_result[1])
        /\ C9_MapOf(split(gdb_result[2]))

C9_Witness ==
    /\ GdbAnswered
    /\ pc = "TraceExtracted"
    /\ gdb_result[2] = Join(<<MapEntryLine, MapEntryLine, MapHeaderLine, MapEntryLine,
                              MapHeaderLine, MapEntryLine>>)
    /\ report.proc_maps = <<MapHeaderLine, MapEntryLine>>
    /\ report.stacktrace = <<"#0  0x4f in foo () at a.c:3", "#1  0x5a in main () at a.c:9">>

\* The entry derive names for a check name, an access and near_null, by the
\* rules of C2 and C3; "" when it names none.
DeriveName(name, rw, near_null) ==
    IF name = "SEGV" THEN SegvExpected(rw, near_null)
    ELSE IF name = "stack-overflow" THEN "StackOverflow"
    ELSE IF name = "deadly" THEN "AbortSignal"
    ELSE IF (name \o SuffixOf(rw)) \in TableNames THEN name \o SuffixOf(rw)
    ELSE IF name \in TableNames THEN name
    ELSE ""

\* The class of the report is derive(name, rw, near_null) for some near_null,
\* or the default class when derive finds nothing.
ClassDerived(name, rw) ==
    \E near_null \in BOOLEAN :
        IF DeriveName(name, rw, near_null) = ""
        THEN report.execution_class = DefaultClass
        ELSE ClassIs(DeriveName(name, rw, near_null))

\* The access qualifier of a report: the token on its second line, if any.
Qualifier(ex) == IF Len(ex) >= 2 THEN raccess_capture(ex[2]) ELSE None

\* Routing by the captures caps of the first line that matches the summary
\* pattern: its tool and its check name.
RoutedBySummary(ex, caps) ==
    /\ (caps # None /\ caps[1].tool = "libFuzzer") =>
           ClassDerived(caps[1].check, None)
    /\ (caps # None /\ caps[1].tool = "AddressSanitizer") =>
           ClassDerived(caps[1].check, Qualifier(ex))

\* The claim C10 as written: the tool name on the summary line routes the
\* classification of every report that has a summary line.
C10_AsWritten ==
    SanClassified => RoutedBySummary(report.asan_report, find_summary(report.asan_report))

\* C10 (amended): a report whose first line names LeakSanitizer is classed
\* memory-leaks, whatever its summary line; any other report is routed by
\* the tool of its first line matching the summary pattern: libFuzzer gives
\* derive(check) without access qualifier, AddressSanitizer gives
\* derive(check, qualifier), the qualifier being the READ, WRITE or ACCESS
\* token of the second line of the report, none without such a token or
\* such a line.
C10_Routing ==
    SanClassified =>
        IF contains(report.asan_report[1], "LeakSanitizer")
        THEN ClassIs("memory-leaks")
        ELSE RoutedBySummary(report.asan_report, find_summary(report.asan_report))

C10_Witness ==
    /\ pc = "Classifying"
    /\ report.asan_report = <<FuzzerStartLine, WriteLine, FuzzerSummaryLine>>
    /\ report.execution_class.short_description = "heap-buffer-overflow"
    /\ report.execution_class.severity = "PROBABLY_EXPLOITABLE"


\* The report is not LeakSanitizer's and its check name resolves to no entry
\* of the table, or no line of it matches the summary pattern, caps being
\* the captures of the first line that does.
C11_NoEntry(ex, caps) ==
    /\ ~contains(ex[1], "LeakSanitizer")
    /\ \/ caps = None
       \/ /\ caps # None
          /\ \A near_null \in BOOLEAN :
                DeriveName(caps[1].check,
                           IF caps[1].tool = "libFuzzer" THEN None ELSE Qualifier(ex),
                           near_null) = ""

\* C11: on the sanitizer path a check name that resolves to no entry of the
\* table (or no check name at all) never aborts the run: the class stays the
\* default class, stack-trace extraction is the next step, and the only
\* failures that follow are those of extraction and of the report file.
C11_Continues ==
    /\ pc # "Panicked"
    /\ report.execution_class = DefaultClass
    /\ pc = "Classifying" => ENABLED ExtractSan
    /\ pc = "Failed" =>
          error \in {StackTraceNotFound, StackTraceEndNotFound, PersistenceFailure}

C11_ClassNotFoundContinues ==
    (report_start # None /\ pc \notin {"Start", "Init", "Ingested"}) =>
        \/ C11_Continues
        \/ ~C11_NoEntry(report.asan_report, find_summary(report.asan_report))

C11_Witness ==
    /\ pc = "Finalized"
    /\ report.asan_report = <<AsanStartLine, FrameZeroLine, "", LeakSummaryLine>>
    /\ find_summary(report.asan_report)
          = Some([tool |-> "AddressSanitizer", check |-> "7"])
    /\ report.execution_class = DefaultClass
    /\ report.stacktrace = <<"#0 0x4f in foo a.c:3">>
    /\ Len(emitted) = 1

\* The claim C12: the default class, which a fresh report holds and keeps
\* when no classification rule applies, equals field for field the entry of
\* the table that find returns for "Undefined".
C12_DefaultIsUndefinedEntry ==
    (query.op = "find" /\ query.short_desc = "Undefined" /\ answer # None) =>
        /\ answer[1].ok
        /\ answer[1].val.severity = DefaultClass.severity
        /\ answer[1].val.short_description = DefaultClass.short_description
        /\ answer[1].val.description = DefaultClass.description
        /\ answer[1].val.explanation = DefaultClass.explanation

\* The start line of a report as a text pattern, read at position i of the
\* line: "==", n digits, "==", w whitespace characters, "ERROR: ", one of
\* the three tool names, ":".
C13_StartAt(line, i, n, w) ==
    /\ StartsAt(line, i + 2 + n, "==")
    /\ StartsAt(line, i + 4 + n + w, "ERROR: ")
    /\ \A k \in (i + 2)..(i + 1 + n) : IsDigit(Char(line, k))
    /\ \A k \in (i + 4 + n)..(i + 3 + n + w) : IsWhite(Char(line, k))
    /\ \E tool \in {"LeakSanitizer", "AddressSanitizer", "libFuzzer"} :
          StartsAt(line, i + 4 + n + w, "ERROR: " \o tool \o ":")

\* A start line with a process id of at least mindigits digits and at most
\* maxspace whitespace characters before ERROR.
C13_IsStartLine(line, mindigits, maxspace) ==
    \E i \in 1..Len(line) :
        /\ StartsAt(line, i, "==")
        /\ \E n \in mindigits..Len(line) :
              /\ StartsAt(line, i + 2 + n, "==")
              /\ \E w \in 0..maxspace : C13_StartAt(line, i, n, w)

\* Ingestion of the text into lines, s being the index of the first of its
\* start lines (0 without one) and e that of its last non-empty line: the
\* lines are the pieces of the text between line terminators; without a
\* start line the excerpt is empty and the signal path is taken (the
\* termination signal is read next); else the excerpt is the lines from s
\* to e, both included, in order, and the signal path is not taken.
C13_Ingested(lines, s, e) ==
    /\ IsLinesOf(lines, sanitizers_stderr)
    /\ s = 0 =>
          /\ report_start = None
          /\ report.asan_report = <<>>
          /\ ENABLED ClassifySignal
    /\ s # 0 =>
          /\ report_start = Some(s)
          /\ Len(report.asan_report) = e - s + 1
          /\ \A k \in 1..Len(report.asan_report) : report.asan_report[k] = lines[s + k - 1]
          /\ report.asan_report[1] = lines[s]
          /\ report.asan_report[Len(report.asan_report)] # ""
          /\ ~ENABLED ClassifySignal

\* The index of the last non-empty line, 0 without one.
C13_LastNonEmpty(lines) == LastIndex({i \in 1..Len(lines) : lines[i] # ""})

\* Ingestion is over, and nothing else has been done.
IngestionOver == pc = "Ingested"

\* The claim C13 as written: the process id of a start line has two or more
\* digits, and a line with fewer is not a start line.
C13_AsWritten ==
    IngestionOver =>
        C13_Ingested(san_stderr_list,
                     FirstIndex({i \in 1..Len(san_stderr_list) :
                                    C13_IsStartLine(san_stderr_list[i], 2, 0)}),
                     C13_LastNonEmpty(san_stderr_list))

\* C13 (amended): the same with a process id of one or more digits (and any
\* whitespace between the second "==" and ERROR).
C13_Ingestion ==
    IngestionOver =>
        C13_Ingested(san_stderr_list,
                     FirstIndex({i \in 1..Len(san_stderr_list) :
                                    C13_IsStartLine(san_stderr_list[i], 1,
                                                    Len(san_stderr_list[i]))}),
                     C13_LastNonEmpty(san_stderr_list))

C13_Witness ==
    /\ pc = "Ingested"
    /\ sanitizers_stderr = Join(<<WriteLine, AsanStartLine, FrameZeroLine, "", "">>)
    /\ san_stderr_list = <<WriteLine, AsanStartLine, FrameZeroLine, "", "">>
    /\ report_start = Some(2)
    /\ report.asan_report = <<AsanStartLine, FrameZeroLine>>

\* The steps of the pipeline in their order: Start and Ingested are the
\* points of main before the report exists and between ingestion and
\* classification.
C14_Order ==
    {<<"Start", "Init">>, <<"Init", "Ingested">>, <<"Ingested", "Classifying">>,
     <<"Classifying", "TraceExtracted">>, <<"TraceExtracted", "LineResolved">>,
     <<"LineResolved", "Finalized">>}

\* The states in which a run ends.
C14_Ended == {"Finalized", "Failed", "Panicked"}

\* Crash-line resolution was attempted and failed: nothing was stored.
C14_ResolverFailed ==
    resolver_calls > 0 /\ report.crashline = "" /\ report.source = <<>>

\* The claim C14 as written, in its part on crash-line resolution: once
\* resolution has failed the run still reaches Finalized and emits the
\* report, so it is never in a failure state.
C14_AsWritten == C14_ResolverFailed => pc \in {"LineResolved", "Finalized"}

\* One step of the pipeline: the state moves to the next one of the order or
\* to a failure, never from a state that ends the run; the resolver is
\* called once, in TraceExtracted, with the stack trace stored, and its
\* failure is not a failure of the run; the report is emitted only by the
\* step into Finalized; from TraceExtracted on neither the class nor the
\* stack trace changes.
C14_Step ==
    /\ pc \notin C14_Ended
    /\ <<pc, pc'>> \in C14_Order \/ pc' \in {"Failed", "Panicked"}
    /\ resolver_calls' # resolver_calls =>
          /\ pc = "TraceExtracted"
          /\ report.stacktrace # <<>>
          /\ resolver_calls = 0 /\ resolver_calls' = 1
          /\ pc' = "LineResolved"
    /\ emitted' # emitted =>
          /\ pc = "LineResolved" /\ pc' = "Finalized"
          /\ emitted' = <<[sink |-> emitted'[1].sink, repstr |-> report]>>
    /\ pc \in {"TraceExtracted", "LineResolved"} =>
          /\ report'.execution_class = report.execution_class
          /\ report'.stacktrace = report.stacktrace
    /\ pc = "LineResolved" => report' = report

\* The states of the pipeline: a report is emitted only in Finalized and is
\* emitted there; a failure state has emitted nothing; after a failed
\* resolution serialization is the next step, and the only failure left is
\* that of writing the report file.
C14_State ==
    /\ emitted # <<>> <=> pc = "Finalized"
    /\ pc \in {"Failed", "Panicked"} => emitted = <<>>
    /\ pc = "Failed" =>
          error \in {OutOfMemory, StackTraceNotFound, StackTraceEndNotFound,
                     NoCrashDetected, ExternalToolFailure, PersistenceFailure}
    /\ resolver_calls = 0 <=> pc \notin {"LineResolved", "Finalized"}
                              /\ ~(pc = "Failed" /\ error = PersistenceFailure)
    /\ C14_ResolverFailed =>
          /\ pc = "LineResolved" => ENABLED Serialize
          /\ pc = "Failed" => error = PersistenceFailure
          /\ pc \in {"LineResolved", "Finalized", "Failed"}

\* C14 (amended): every run moves through Init, Classifying, TraceExtracted,
\* LineResolved, Finalized in that order, none skipped or revisited, or ends
\* in a failure that emits nothing; a failed crash-line resolution leaves
\* crash line and source empty and the run goes on to serialization, where
\* it reaches Finalized and emits the report unless the report file cannot
\* be written.
C14_PipelineOrder == []C14_State /\ [][C14_Step]_vars

C14_Witness ==
    /\ pc = "Finalized"
    /\ C14_ResolverFailed
    /\ report.stacktrace = <<"#0 0x4f in foo a.c:3">>
    /\ report.execution_class.short_description = "heap-buffer-overflow(write)"
    /\ Len(emitted) = 1
    /\ emitted[1].repstr = report

\* The order of the severities: NOT_EXPLOITABLE < PROBABLY_EXPLOITABLE <
\* EXPLOITABLE.
C15_Rank(severity) ==
    CASE severity = "NOT_EXPLOITABLE"      -> 1
      [] severity = "PROBABLY_EXPLOITABLE" -> 2
      [] severity = "EXPLOITABLE"          -> 3

C15_Ranked == {"NOT_EXPLOITABLE", "PROBABLY_EXPLOITABLE", "EXPLOITABLE"}

\* The severity of class a is at most that of class b.
C15_Leq(a, b) ==
    \/ a.severity = b.severity
    \/ /\ a.severity \in C15_Ranked
       /\ b.severity \in C15_Ranked
       /\ C15_Rank(a.severity) <= C15_Rank(b.severity)

\* The results of derive for one name and near_null with READ, with no
\* qualifier and with WRITE: all three succeed or all three fail, and the
\* severities do not decrease in that order.
C15_Monotone(rd, bare, wr) ==
    /\ rd.ok = bare.ok /\ bare.ok = wr.ok
    /\ bare.ok => (C15_Leq(rd.val, bare.val) /\ C15_Leq(bare.val, wr.val))

\* The severity of the table row of this name.
C15_SeverityOf(name) == CLASSES[CHOOSE i \in RowsNamed(name) : TRUE][1]

\* An entry named X(read) has the companions X and X(write), with the
\* severities NOT_EXPLOITABLE, PROBABLY_EXPLOITABLE and EXPLOITABLE.
C15_Companions(name) ==
    RowsNamed(name \o "(read)") # {} =>
        /\ RowsNamed(name) # {} /\ RowsNamed(name \o "(write)") # {}
        /\ C15_SeverityOf(name \o "(read)") = "NOT_EXPLOITABLE"
        /\ C15_SeverityOf(name) = "PROBABLY_EXPLOITABLE"
        /\ C15_SeverityOf(name \o "(write)") = "EXPLOITABLE"

\* C15: for every check name and near_null, derive with READ, with no
\* qualifier and with WRITE gives severities that do not decrease in that
\* order; every table entry X(read) has companions X and X(write) of
\* severities NOT_EXPLOITABLE, PROBABLY_EXPLOITABLE, EXPLOITABLE; and SEGV
\* with READ is a NOT_EXPLOITABLE class.
C15_SeverityByAccess ==
    (query.op = "san_find" /\ answer # None /\ query.rw \in {None, Some("READ"), Some("WRITE")}) =>
        /\ answer[1] = san_find(query.short_desc, query.rw, query.near_null)
        /\ C15_Monotone(IF query.rw = Some("READ") THEN answer[1]
                        ELSE san_find(query.short_desc, Some("READ"), query.near_null),
                        IF query.rw = None THEN answer[1]
                        ELSE san_find(query.short_desc, None, query.near_null),
                        IF query.rw = Some("WRITE") THEN answer[1]
                        ELSE san_find(query.short_desc, Some("WRITE"), query.near_null))
        /\ C15_Companions(query.short_desc)
        /\ (query.short_desc = "SEGV" /\ query.rw = Some("READ")) =>
               (answer[1].ok /\ answer[1].val.severity = "NOT_EXPLOITABLE")

C15_Witness ==
    /\ query = [op |-> "san_find", short_desc |-> "stack-buffer-underflow",
                rw |-> Some("WRITE"), near_null |-> FALSE]
    /\ answer # None
    /\ answer[1].ok
    /\ answer[1].val.severity = "EXPLOITABLE"
    /\ san_find("stack-buffer-underflow", None, FALSE).val.severity = "PROBABLY_EXPLOITABLE"
    /\ san_find("stack-buffer-underflow", Some("READ"), FALSE).val.severity = "NOT_EXPLOITABLE"
====
